---- MODULE Spec2Model ----
(***************************************************************************)
(* Model of the TeraBox URL checker: the two sibling Express servers       *)
(* src/index.js ("index") and src/unnamed/part_000 ("part000").            *)
(* One request to GET / is followed from the route handler through         *)
(* checkUrl and its awaited provider lookups to the HTTP response.         *)
(*                                                                         *)
(* JavaScript values are tagged records; strings are TLA+ strings.  The    *)
(* library calls the code makes (new URL, URL.toString, the hostname       *)
(* setter, URLSearchParams, String.prototype.match) are modelled by what   *)
(* they do on the strings the model draws: lower-case http(s) URLs without *)
(* userinfo, percent escapes, '+' or dot segments, and strings without a   *)
(* scheme.                                                                 *)
(***************************************************************************)
EXTENDS Integers, Sequences, FiniteSets, TLC

VARIABLES variant, pc, req, cookieArg, normalizedUrl, extracted, calls,
          inflight, primaryResp, fallbackResp, primaryResult, fallbackResult,
          responses, threw, alive

vars == <<variant, pc, req, cookieArg, normalizedUrl, extracted, calls,
          inflight, primaryResp, fallbackResp, primaryResult, fallbackResult,
          responses, threw, alive>>

(***************************************************************************)
(* Bounds                                                                  *)
(***************************************************************************)
\* longest provider file list the model draws
MaxList == 2

(***************************************************************************)
(* JavaScript values                                                       *)
(***************************************************************************)
Undef == [t |-> "undefined"]
Null == [t |-> "null"]
Str(s) == [t |-> "string", v |-> s]
Num(n) == [t |-> "number", v |-> n]
Arr(a) == [t |-> "array", v |-> a]
\* a plain object that is neither a file entry nor a payload
EmptyObj == [t |-> "object"]
None == [t |-> "none"]

\* ToBoolean, as used by !x, x || y and x && y
Truthy(x) ==
  CASE x.t = "undefined" -> FALSE
    [] x.t = "null" -> FALSE
    [] x.t = "string" -> x.v # ""
    [] x.t = "number" -> x.v # 0
    [] OTHER -> TRUE

\* x || y
Or(x, y) == IF Truthy(x) THEN x ELSE y

RECURSIVE Join(_)
Join(a) ==
  IF Len(a) = 0 THEN ""
  ELSE IF Len(a) = 1 THEN a[1].v
  ELSE a[1].v \o "," \o Join(Tail(a))

\* String(x) for the values a query parameter can hold: a string, or an
\* array of strings (joined with commas)
JSString(x) ==
  CASE x.t = "string" -> x.v
    [] x.t = "array" -> Join(x.v)
    [] x.t = "undefined" -> "undefined"
    [] OTHER -> "[object Object]"

\* x.length
JSLength(x) ==
  CASE x.t = "string" -> Num(Len(x.v))
    [] x.t = "array" -> Num(Len(x.v))
    [] OTHER -> Undef

(***************************************************************************)
(* Strings                                                                 *)
(***************************************************************************)
CharAt(s, i) == SubSeq(s, i, i)

StartsWith(s, p) == Len(s) >= Len(p) /\ SubSeq(s, 1, Len(p)) = p

Substring(s, from) == SubSeq(s, from + 1, Len(s))

\* least i >= from with p at position i of s, 0 when there is none
RECURSIVE IndexOf(_, _, _)
IndexOf(s, p, from) ==
  IF from + Len(p) - 1 > Len(s) THEN 0
  ELSE IF SubSeq(s, from, from + Len(p) - 1) = p THEN from
  ELSE IndexOf(s, p, from + 1)

Includes(s, p) == IndexOf(s, p, 1) # 0

\* least i >= from whose character is in stops, Len(s) + 1 when there is none
RECURSIVE IndexOfAny(_, _, _)
IndexOfAny(s, stops, from) ==
  IF from > Len(s) THEN Len(s) + 1
  ELSE IF CharAt(s, from) \in stops THEN from
  ELSE IndexOfAny(s, stops, from + 1)

\* s.match(/<prefix>([^<stops>]+)/): the leftmost occurrence of prefix that
\* is followed by a character outside stops; the group is greedy
RECURSIVE RegexCapture(_, _, _, _)
RegexCapture(s, prefix, stops, from) ==
  LET i == IndexOf(s, prefix, from)
      k == i + Len(prefix)
      e == IndexOfAny(s, stops, k)
  IN IF i = 0 THEN [found |-> FALSE]
     ELSE IF e > k THEN [found |-> TRUE, group |-> SubSeq(s, k, e - 1)]
     ELSE RegexCapture(s, prefix, stops, i + 1)

UpperCase == "ABCDEFGHIJKLMNOPQRSTUVWXYZ"
LowerCase == "abcdefghijklmnopqrstuvwxyz"

LowerChar(c) ==
  LET i == IndexOf(UpperCase, c, 1)
  IN IF i = 0 THEN c ELSE CharAt(LowerCase, i)

RECURSIVE ToLowerCase(_)
ToLowerCase(s) ==
  IF s = "" THEN "" ELSE LowerChar(CharAt(s, 1)) \o ToLowerCase(Substring(s, 1))

(***************************************************************************)
(* The URL class                                                           *)
(***************************************************************************)
DefaultPort(protocol) == IF protocol = "https" THEN "443" ELSE "80"

\* code points a host may not contain (those the model's alphabet has)
ForbiddenHostChars == {" ", "<", ">", "^", "|"}

HasForbiddenHostChar(h) == IndexOfAny(h, ForbiddenHostChars, 1) <= Len(h)

\* new URL(s), without a base: [ok |-> FALSE] stands for the TypeError
ParseURL(s) ==
  LET protocol == IF StartsWith(s, "https://") THEN "https" ELSE "http"
      rest == Substring(s, Len(protocol) + 3)
      a == IndexOfAny(rest, {"/", "?", "#"}, 1)
      authority == SubSeq(rest, 1, a - 1)
      colon == IndexOf(authority, ":", 1)
      hostRaw == IF colon = 0 THEN authority ELSE SubSeq(authority, 1, colon - 1)
      portRaw == IF colon = 0 THEN "" ELSE Substring(authority, colon)
      tail == SubSeq(rest, a, Len(rest))
      q == IndexOfAny(tail, {"?", "#"}, 1)
      h == IndexOf(tail, "#", 1)
      path == SubSeq(tail, 1, q - 1)
      hasQuery == q <= Len(tail) /\ CharAt(tail, q) = "?"
  IN IF ~(StartsWith(s, "https://") \/ StartsWith(s, "http://"))
     THEN [ok |-> FALSE]
     ELSE IF hostRaw = "" \/ HasForbiddenHostChar(hostRaw)
     THEN [ok |-> FALSE]
     ELSE [ok |-> TRUE,
           protocol |-> protocol,
           hostname |-> ToLowerCase(hostRaw),
           port |-> IF portRaw = DefaultPort(protocol) THEN "" ELSE portRaw,
           pathname |-> IF path = "" THEN "/" ELSE path,
           hasQuery |-> hasQuery,
           search |-> IF hasQuery
                      THEN SubSeq(tail, q + 1, IF h = 0 THEN Len(tail) ELSE h - 1)
                      ELSE "",
           hasHash |-> h # 0,
           hash |-> IF h = 0 THEN "" ELSE Substring(tail, h)]

\* urlObj.toString()
SerializeURL(u) ==
  u.protocol \o "://" \o u.hostname
    \o (IF u.port = "" THEN "" ELSE ":" \o u.port)
    \o u.pathname
    \o (IF u.hasQuery THEN "?" \o u.search ELSE "")
    \o (IF u.hasHash THEN "#" \o u.hash ELSE "")

\* urlObj.hostname = h: the value is read up to the first of / ? #; an empty
\* value, a ':' or a forbidden code point leaves the URL as it was
SetHostname(u, h) ==
  LET e == IndexOfAny(h, {"/", "?", "#", ":"}, 1)
      buffer == SubSeq(h, 1, e - 1)
  IN IF e <= Len(h) /\ CharAt(h, e) = ":" THEN u
     ELSE IF buffer = "" \/ HasForbiddenHostChar(buffer) THEN u
     ELSE [u EXCEPT !.hostname = ToLowerCase(buffer)]

\* urlObj.searchParams.has(name) and .get(name) over the query string q:
\* the pairs are split at '&', each at its first '='
RECURSIVE SearchParam(_, _)
SearchParam(q, name) ==
  LET amp == IndexOfAny(q, {"&"}, 1)
      pair == SubSeq(q, 1, amp - 1)
      eq == IndexOfAny(pair, {"="}, 1)
      key == SubSeq(pair, 1, eq - 1)
      value == Substring(pair, IF eq > Len(pair) THEN Len(pair) ELSE eq)
  IN IF q = "" THEN [has |-> FALSE]
     ELSE IF pair # "" /\ key = name THEN [has |-> TRUE, value |-> value]
     ELSE SearchParam(Substring(q, IF amp > Len(q) THEN Len(q) ELSE amp), name)

(***************************************************************************)
(* Program constants                                                       *)
(***************************************************************************)
DEFAULT_HOST == "dm.nephobox.com"

TERABOX_DOMAINS ==
  {"terafileshare.com", "www.terafileshare.com",
   "terabox.com", "www.terabox.com",
   "terabox.club", "www.terabox.club",
   "teraboxlink.com", "4funbox.com", "www.4funbox.com",
   "terasharelink.com", "1024terabox.com", "www.1024terabox.com",
   "terabox.app", "www.terabox.app", "terabox.fun",
   "1024tera.com", "1024tera.co", "1024box.com",
   "teraboxshare.com", "teraboxapp.com", "momerybox.com",
   "4funbox.co", "mirrobox.com", "nephobox.com",
   "freeterabox.com", "tibibox.com"}

\* the alternatives of the route's provider-domain pattern
DomainPatterns ==
  {"terabox", "tera", "1024tera", "4funbox", "nephobox", "mirrobox", "freeterabox"}

\* /(?:terabox|tera|...)/.test(x)
DomainTest(x) == \E p \in DomainPatterns : Includes(JSString(x), p)

(***************************************************************************)
(* Property access and the values a provider can send                      *)
(***************************************************************************)
\* x.f for a value x that is neither null nor undefined
Get(x, f) == IF x.t = "object" /\ f \in DOMAIN x THEN x[f] ELSE Undef

File1 == [t |-> "object", server_filename |-> Str("a.txt"), size |-> Num(10),
          isdir |-> Num(0)]
File2 == [t |-> "object", server_filename |-> Str("dir"), isdir |-> Num(1)]

\* what a provider list can hold: file objects, and null
Entries == {File1, File2, Null}

SeqsUpTo(S, n) == UNION {[1..k -> S] : k \in 0..n}

\* the list field of a payload: absent, an array, a string, an object
Lists ==
  {Undef, Str("ab"), EmptyObj} \cup {Arr(a) : a \in SeqsUpTo(Entries, MaxList)}

Payload(errno, errmsg, list) ==
  [t |-> "object", errno |-> errno, errmsg |-> errmsg, list |-> list]

\* what one fetch can come back with: a rejected fetch, a non-2xx status, a
\* 2xx body that is not JSON, or a 2xx body holding a JSON value
ProviderBehaviours ==
  {[kind |-> "neterr", message |-> "fetch failed"],
   [kind |-> "status", ok |-> FALSE],
   [kind |-> "badjson", message |-> "Unexpected token < in JSON"],
   [kind |-> "json", data |-> Null],
   [kind |-> "json", data |-> Num(5)],
   [kind |-> "json", data |-> Payload(Undef, Undef, Undef)],
   [kind |-> "json", data |-> Payload(Str("0"), Undef, Arr(<<File1>>))],
   [kind |-> "json", data |-> Payload(Num(2), Str("share expired"), Arr(<<File1>>))]}
  \cup {[kind |-> "json", data |-> Payload(Num(0), Undef, l)] : l \in Lists}
  \cup {[kind |-> "json", data |-> Payload(Num(2), m, Undef)] :
          m \in {Undef, Str(""), Str("share expired"), Num(7)}}

(***************************************************************************)
(* convertToDefaultHost                                                    *)
(***************************************************************************)
\* a default parameter value: f(x = d)
DefaultParam(x, d) == IF x.t = "undefined" THEN d ELSE x

\* a slip the host normalizer could make: re-serializing every URL that parses
convertToDefaultHostAlways(url, defaultHost) ==
  LET urlObj == ParseURL(JSString(url))
      target == DefaultParam(defaultHost, Str(DEFAULT_HOST))
  IN IF ~urlObj.ok THEN url
     ELSE IF urlObj.hostname \in TERABOX_DOMAINS
     THEN Str(SerializeURL(SetHostname(urlObj, JSString(target))))
     ELSE Str(SerializeURL(urlObj))

convertToDefaultHost(url, defaultHost) ==
  LET urlObj == ParseURL(JSString(url))
      target == DefaultParam(defaultHost, Str(DEFAULT_HOST))
  IN IF ~urlObj.ok THEN url
     ELSE IF urlObj.hostname \in TERABOX_DOMAINS
     THEN Str(SerializeURL(SetHostname(urlObj, JSString(target))))
     ELSE url

(***************************************************************************)
(* The provider client                                                     *)
(***************************************************************************)
Failure(errno, error) == [success |-> FALSE, errno |-> errno, error |-> error]

\* the call fetch(url, {headers}) makes, with the host it goes to; fetch
\* rejects at once, and nothing is sent, when url does not parse
Fetch(kind, url, cookie) ==
  LET u == ParseURL(url)
  IN [kind |-> kind, url |-> url, cookie |-> cookie, sent |-> u.ok,
      host |-> IF u.ok THEN u.hostname ELSE ""]

\* a slip the primary lookup could make: ignoring its host argument
PrimaryCallDefaultHost(shortUrl, cookie, host) ==
  Fetch("primary",
        "https://" \o DEFAULT_HOST
          \o "/api/shorturlinfo?clienttype=1&root=1&shorturl=" \o shortUrl,
        cookie)

\* the request fetchShortUrlInfo sends
PrimaryCall(shortUrl, cookie, host) ==
  Fetch("primary",
        "https://" \o JSString(host)
          \o "/api/shorturlinfo?clienttype=1&root=1&shorturl=" \o shortUrl,
        cookie)

\* the request fetchShareListFallback sends
FallbackCall(shortUrl) ==
  Fetch("fallback",
        "https://www.nephobox.com/share/list?clienttype=5&shorturl="
          \o shortUrl \o "&root=1",
        Undef)

\* the message of the TypeError raised by reading a property of null
NullReadMessage == "Cannot read properties of null (reading 'errno')"

\* what the catch clause of the primary lookup returns
PrimaryCatch(v, message) ==
  Failure(Undef, Str(IF v = "index" THEN "Network error: " \o message
                     ELSE "Network error"))

\* an exception, with its message
Thrown(message) == [threw |-> TRUE, message |-> message]

\* the try block of a lookup once fetch has settled with the provider's
\* behaviour r: the value it returns, or the exception it throws
LookupTry(r, apiError, requestFailed) ==
  CASE r.kind = "neterr" -> Thrown(r.message)
    [] r.kind = "status" -> Failure(Undef, Str(requestFailed))
    [] r.kind = "badjson" -> Thrown(r.message)
    [] r.kind = "json" ->
         IF Truthy(r.data) /\ Get(r.data, "errno") = Num(0)
         THEN [success |-> TRUE, data |-> r.data]
         ELSE IF r.data.t = "null" THEN Thrown(NullReadMessage)
         ELSE Failure(Get(r.data, "errno"),
                      Or(Get(r.data, "errmsg"), Str(apiError)))

fetchShortUrlInfo(v, r) ==
  LET try == LookupTry(r, "API error", "Request failed")
  IN IF "threw" \in DOMAIN try THEN PrimaryCatch(v, try.message) ELSE try

fetchShareListFallback(r) ==
  LET try == LookupTry(r, "Fallback error", "Fallback failed")
  IN IF "threw" \in DOMAIN try THEN Failure(Undef, Str("Network error")) ELSE try

(***************************************************************************)
(* checkUrl: the short-link extractor                                      *)
(***************************************************************************)
\* s.startsWith('1') && s.length > 1 ? s.substring(1) : s
StripLeadingOne(s) ==
  IF StartsWith(s, "1") /\ Len(s) > 1 THEN Substring(s, 1) ELSE s

\* a slip: a failure result without its message
ErrorResultEmpty(message) == [exists |-> FALSE, error |-> Str("")]

ErrorResult(message) == [exists |-> FALSE, error |-> Str(message)]

Identifier(strategy, raw, shortUrl) ==
  [kind |-> "id", strategy |-> strategy, raw |-> raw, shortUrl |-> shortUrl]

Returned(result) == [kind |-> "return", result |-> result]

PathSegmentStops == {"/", "?", "&"}

\* src/index.js: lines 65-86 of checkUrl, up to the identifier it will send
ExtractIndex(url) ==
  LET urlObj == ParseURL(JSString(url))
      surl == SearchParam(urlObj.search, "surl")
      match == RegexCapture(url.v, "/s/", PathSegmentStops, 1)
  IN IF ~urlObj.ok THEN Returned(ErrorResult("Invalid URL format"))
     ELSE IF surl.has
     THEN IF surl.value = ""
          THEN Returned(ErrorResult("Could not parse Short URL"))
          ELSE Identifier("surl", surl.value, StripLeadingOne(surl.value))
     ELSE IF url.t # "string"
     THEN Returned(ErrorResult("Invalid URL format"))
     ELSE IF ~match.found
     THEN Returned(ErrorResult("Could not parse Short URL"))
     ELSE Identifier("path", match.group, StripLeadingOne(match.group))

\* src/unnamed/part_000: lines 104-120 of checkUrl, on the normalized URL
ExtractPart000(normalized) ==
  LET surlMatch == RegexCapture(normalized.v, "surl=", {"&"}, 1)
      sMatch == RegexCapture(normalized.v, "/s/", PathSegmentStops, 1)
  IN IF normalized.t # "string" THEN Returned(ErrorResult("Check failed"))
     ELSE IF surlMatch.found
     THEN Identifier("surl", surlMatch.group, surlMatch.group)
     ELSE IF sMatch.found
     THEN Identifier("path", sMatch.group, StripLeadingOne(sMatch.group))
     ELSE Returned(ErrorResult("Invalid URL"))

(***************************************************************************)
(* checkUrl: the result mapper                                             *)
(***************************************************************************)
\* a slip the mapper could make: size taken from the wrong field
MapFileWrongSize(f) ==
  [name |-> Get(f, "server_filename"), size |-> Get(f, "isdir"),
   isdir |-> Get(f, "isdir")]

\* f => ({name: f.server_filename, size: f.size, isdir: f.isdir})
MapFile(f) ==
  [name |-> Get(f, "server_filename"), size |-> Get(f, "size"),
   isdir |-> Get(f, "isdir")]

\* fileList.map(...): a TypeError unless fileList is an array whose entries
\* are neither null nor undefined
MapFiles(fileList) ==
  IF fileList.t # "array" THEN Thrown("fileList.map is not a function")
  ELSE IF \E i \in 1..Len(fileList.v) : fileList.v[i].t \in {"null", "undefined"}
  THEN Thrown("Cannot read properties of null (reading 'server_filename')")
  ELSE [threw |-> FALSE, v |-> [i \in 1..Len(fileList.v) |-> MapFile(fileList.v[i])]]

\* result.data.list || []
FileListOf(data) == Or(Get(data, "list"), Arr(<<>>))

\* a slip: fileList.length >= 0
ExistsFromZero(fileList) ==
  LET n == JSLength(fileList) IN n.t = "number" /\ n.v >= 0

\* fileList.length > 0
Exists(fileList) ==
  LET n == JSLength(fileList) IN n.t = "number" /\ n.v > 0

\* src/unnamed/part_000: the object literal returned for a successful lookup
\* (lines 126-135 and 142-151); a throw lands in the catch of line 159
MappedResult(data) ==
  LET fileList == FileListOf(data)
      files == MapFiles(fileList)
  IN IF files.threw THEN ErrorResult("Check failed")
     ELSE [exists |-> Exists(fileList),
           total_files |-> JSLength(fileList),
           files |-> files.v]

\* src/index.js: lines 91-119, what checkUrl returns for a lookup result
CheckResultIndex(result) ==
  LET fileList == FileListOf(result.data)
      files == MapFiles(fileList)
  IN IF ~result.success
     THEN [exists |-> FALSE,
           error |-> Or(result.error, Str("File not found or deleted"))]
     ELSE IF JSLength(fileList) = Num(0) THEN ErrorResult("No files found")
     ELSE IF files.threw THEN ErrorResult("Check failed: " \o files.message)
     ELSE [exists |-> TRUE,
           total_files |-> JSLength(fileList),
           files |-> files.v]

\* a slip: the fallback tried whatever the primary lookup returned
NeedFallbackAlways(v, result) == v = "part000"

\* src/unnamed/part_000: the fallback is tried when the primary lookup failed
NeedFallback(v, result) == v = "part000" /\ ~result.success

(***************************************************************************)
(* The route handler of GET /                                              *)
(***************************************************************************)
\* a slip: the prefix added without looking
NormalizeCookieAlways(cookie) == Str("ndus=" \o cookie.v)

\* if (!cookie.startsWith('ndus=')) cookie = `ndus=${cookie}`
NormalizeCookie(cookie) ==
  IF StartsWith(cookie.v, "ndus=") THEN cookie ELSE Str("ndus=" \o cookie.v)

Respond(status, body) == [kind |-> "respond", status |-> status, body |-> body]

InfoDocument == [name |-> "TeraBox URL Checker"]

ErrorBody(message) == [error |-> Str(message)]

\* a slip the handler of part_000 could make: the provider-domain check done
\* before the cookie check
RouteHandlerDomainFirst(v, query) ==
  LET teraUrl == query.url
      cookie == query.cookie
      host == Or(query.host, Str(DEFAULT_HOST))
      check == [kind |-> "check", url |-> teraUrl,
                cookie |-> NormalizeCookie(cookie), host |-> host]
  IN IF v = "index"
     THEN IF ~Truthy(teraUrl) /\ ~Truthy(cookie) THEN Respond(200, InfoDocument)
          ELSE IF ~Truthy(teraUrl)
          THEN Respond(400, ErrorBody("Missing 'url' parameter"))
          ELSE IF ~Truthy(cookie)
          THEN Respond(401, ErrorBody("Missing 'cookie' parameter"))
          ELSE IF cookie.t # "string" THEN [kind |-> "throw"]
          ELSE check
     ELSE IF ~Truthy(teraUrl) THEN Respond(200, InfoDocument)
          ELSE IF ~DomainTest(teraUrl)
          THEN Respond(400, ErrorBody("Invalid TeraBox URL"))
          ELSE IF ~Truthy(cookie)
          THEN Respond(401, ErrorBody("Missing 'cookie' parameter"))
          ELSE IF cookie.t # "string" THEN [kind |-> "throw"]
          ELSE check

\* the handler up to its call of checkUrl: a response, a TypeError (startsWith
\* of a cookie that is not a string), or the arguments of checkUrl
RouteHandler(v, query) ==
  LET teraUrl == query.url
      cookie == query.cookie
      host == Or(query.host, Str(DEFAULT_HOST))
      check == [kind |-> "check", url |-> teraUrl,
                cookie |-> NormalizeCookie(cookie), host |-> host]
  IN IF v = "index"
     THEN IF ~Truthy(teraUrl) /\ ~Truthy(cookie) THEN Respond(200, InfoDocument)
          ELSE IF ~Truthy(teraUrl)
          THEN Respond(400, ErrorBody("Missing 'url' parameter"))
          ELSE IF ~Truthy(cookie)
          THEN Respond(401, ErrorBody("Missing 'cookie' parameter"))
          ELSE IF cookie.t # "string" THEN [kind |-> "throw"]
          ELSE check
     ELSE IF ~Truthy(teraUrl) THEN Respond(200, InfoDocument)
          ELSE IF ~Truthy(cookie)
          THEN Respond(401, ErrorBody("Missing 'cookie' parameter"))
          ELSE IF cookie.t # "string" THEN [kind |-> "throw"]
          ELSE IF ~DomainTest(teraUrl)
          THEN Respond(400, ErrorBody("Invalid TeraBox URL"))
          ELSE check

\* checkUrl up to its first await: the value it returns at once, or the
\* identifier it sends to the primary lookup
CheckUrlStart(v, url, host) ==
  IF v = "index" THEN ExtractIndex(url)
  ELSE ExtractPart000(convertToDefaultHost(url, host))

(***************************************************************************)
(* Requests the model draws                                                *)
(***************************************************************************)
\* req.query.url: absent, empty, a string, or a list (a repeated parameter)
UrlParams ==
  {Undef, Str(""),
   Str("https://terabox.com/s/1abc"),
   Str("https://1024tera.com/s/1"),
   Str("http://mirrobox.com:8080/s/abc"),
   Str("https://teraboxapp.com/sharing/link?surl=xyz12"),
   Str("https://terabox.com/sharing/link?surl=1abc&x=1"),
   Str("https://TeraBox.com:443/s/1abc?a=b#f"),
   Str("https://terabox.com"),
   Str("https://x-tera.io/s/1q"),
   Str("https://example.org/s/1abc"),
   Str("terabox.com/s/1abc"),
   Str("garbage"),
   Arr(<<Str("https://terabox.com/s/1abc"), Str("x")>>)}

\* req.query.cookie
CookieParams ==
  {Undef, Str(""), Str("abc123"), Str("ndus=abc123"), Arr(<<Str("a"), Str("b")>>)}

\* req.query.host
HostParams == {Undef, Str(""), Str("h.io"), Str("terabox.com"), Str("a b")}

Queries == [url : UrlParams, cookie : CookieParams, host : HostParams]

\* what becomes of a request whose async handler rejected: Express 4 sends
\* nothing (the request hangs), a Node that exits on an unhandled rejection
\* ends the process, Express 5 answers 500
RejectionOutcomes == {"hang", "exit", "error500"}

(***************************************************************************)
(* The server                                                              *)
(***************************************************************************)
Init ==
  /\ variant \in {"index", "part000"}
  /\ pc = "idle"
  /\ req = None
  /\ cookieArg = None
  /\ normalizedUrl = None
  /\ extracted = None
  /\ calls = <<>>
  /\ inflight = {}
  /\ primaryResp = None
  /\ fallbackResp = None
  /\ primaryResult = None
  /\ fallbackResult = None
  /\ responses = <<>>
  /\ threw = FALSE
  /\ alive = TRUE

\* a request arrives while no other is being followed
Accept(q) ==
  /\ alive
  /\ req' = q
  /\ primaryResp' = None
  /\ fallbackResp' = None
  /\ primaryResult' = None
  /\ fallbackResult' = None
  /\ UNCHANGED variant

\* res.json(result), res.status(s).json(body)
Send(status, body) ==
  responses' = Append(responses, [status |-> status, body |-> body])

\* the handler answers without calling checkUrl
RequestAnswered ==
  /\ pc = "idle"
  /\ \E q \in Queries :
       LET route == RouteHandler(variant, q)
       IN /\ Accept(q)
          /\ route.kind = "respond"
          /\ responses' = <<[status |-> route.status, body |-> route.body]>>
          /\ pc' = "done"
          /\ cookieArg' = None
          /\ normalizedUrl' = None
          /\ extracted' = None
          /\ calls' = <<>>
          /\ inflight' = {}
          /\ threw' = FALSE
          /\ UNCHANGED alive

\* the handler throws before it calls checkUrl
RequestThrows ==
  /\ pc = "idle"
  /\ \E q \in Queries, outcome \in RejectionOutcomes :
       LET route == RouteHandler(variant, q)
       IN /\ Accept(q)
          /\ route.kind = "throw"
          /\ threw' = TRUE
          /\ responses' = IF outcome = "error500"
                          THEN <<[status |-> 500, body |-> ErrorBody("Internal Server Error")]>>
                          ELSE <<>>
          /\ pc' = CASE outcome = "hang" -> "hung"
                     [] outcome = "exit" -> "exited"
                     [] OTHER -> "done"
          /\ alive' = (outcome # "exit")
          /\ cookieArg' = None
          /\ normalizedUrl' = None
          /\ extracted' = None
          /\ calls' = <<>>
          /\ inflight' = {}

\* checkUrl returns before any lookup
RequestReturns ==
  /\ pc = "idle"
  /\ \E q \in Queries :
       LET route == RouteHandler(variant, q)
           start == CheckUrlStart(variant, route.url, route.host)
       IN /\ Accept(q)
          /\ route.kind = "check"
          /\ start.kind = "return"
          /\ cookieArg' = route.cookie
          /\ normalizedUrl' = IF variant = "part000"
                              THEN convertToDefaultHost(route.url, route.host)
                              ELSE None
          /\ extracted' = None
          /\ responses' = <<[status |-> 200, body |-> start.result]>>
          /\ pc' = "done"
          /\ calls' = <<>>
          /\ inflight' = {}
          /\ threw' = FALSE
          /\ UNCHANGED alive

\* checkUrl sends the primary lookup and awaits it
RequestLooksUp ==
  /\ pc = "idle"
  /\ \E q \in Queries :
       LET route == RouteHandler(variant, q)
           start == CheckUrlStart(variant, route.url, route.host)
       IN /\ Accept(q)
          /\ route.kind = "check"
          /\ start.kind = "id"
          /\ cookieArg' = route.cookie
          /\ normalizedUrl' = IF variant = "part000"
                              THEN convertToDefaultHost(route.url, route.host)
                              ELSE None
          /\ extracted' = start
          /\ calls' = <<PrimaryCall(start.shortUrl, route.cookie, route.host)>>
          /\ inflight' = {"primary"}
          /\ responses' = <<>>
          /\ pc' = "primary"
          /\ threw' = FALSE
          /\ UNCHANGED alive

\* a call that was not sent can only reject
Possible(call, r) == call.sent \/ r.kind = "neterr"

\* the primary lookup settles and checkUrl returns
PrimarySettles ==
  /\ pc = "primary"
  /\ \E r \in ProviderBehaviours :
       LET result == fetchShortUrlInfo(variant, r)
       IN /\ Possible(calls[1], r)
          /\ ~NeedFallback(variant, result)
          /\ primaryResp' = r
          /\ primaryResult' = result
          /\ inflight' = {}
          /\ Send(200, IF variant = "index" THEN CheckResultIndex(result)
                       ELSE MappedResult(result.data))
          /\ pc' = "done"
          /\ UNCHANGED <<variant, req, cookieArg, normalizedUrl, extracted, calls,
                         fallbackResp, fallbackResult, threw, alive>>

\* the primary lookup fails and checkUrl sends the fallback lookup
PrimaryFails ==
  /\ pc = "primary"
  /\ \E r \in ProviderBehaviours :
       LET result == fetchShortUrlInfo(variant, r)
       IN /\ Possible(calls[1], r)
          /\ NeedFallback(variant, result)
          /\ primaryResp' = r
          /\ primaryResult' = result
          /\ calls' = Append(calls, FallbackCall(extracted.shortUrl))
          /\ inflight' = {"fallback"}
          /\ pc' = "fallback"
          /\ UNCHANGED <<variant, req, cookieArg, normalizedUrl, extracted,
                         fallbackResp, fallbackResult, responses, threw, alive>>

\* the fallback lookup settles and checkUrl returns
FallbackSettles ==
  /\ pc = "fallback"
  /\ \E r \in ProviderBehaviours :
       LET result == fetchShareListFallback(r)
       IN /\ Possible(calls[2], r)
          /\ fallbackResp' = r
          /\ fallbackResult' = result
          /\ inflight' = {}
          /\ Send(200, IF result.success THEN MappedResult(result.data)
                       ELSE ErrorResult("File not found or deleted"))
          /\ pc' = "done"
          /\ UNCHANGED <<variant, req, cookieArg, normalizedUrl, extracted, calls,
                         primaryResp, primaryResult, threw, alive>>

\* the handler has returned, or its promise has rejected and its request
\* stays unanswered: nothing of the request is kept
Finish ==
  /\ pc \in {"done", "hung"}
  /\ pc' = "idle"
  /\ req' = None
  /\ cookieArg' = None
  /\ normalizedUrl' = None
  /\ extracted' = None
  /\ calls' = <<>>
  /\ inflight' = {}
  /\ primaryResp' = None
  /\ fallbackResp' = None
  /\ primaryResult' = None
  /\ fallbackResult' = None
  /\ responses' = <<>>
  /\ threw' = FALSE
  /\ UNCHANGED <<variant, alive>>

Next ==
  \/ RequestAnswered
  \/ RequestThrows
  \/ RequestReturns
  \/ RequestLooksUp
  \/ PrimarySettles
  \/ PrimaryFails
  \/ FallbackSettles
  \/ Finish

Spec == Init /\ [][Next]_vars

(***************************************************************************)
(* The host normalizer on its own: convertToDefaultHost applied to a URL   *)
(* string and a target host drawn from the sets below                      *)
(***************************************************************************)
NormalizerUrls ==
  {"https://terabox.com/s/1abc",
   "https://terabox.com",
   "https://TeraBox.com:443/s/1abc?a=b#f",
   "http://mirrobox.com:8080/s/abc",
   "https://www.4funbox.com/sharing/link?surl=xyz12",
   "http://nephobox.com:80/s/1abc?",
   "https://momerybox.com/s/1abc#top",
   "https://example.org",
   "https://example.org/s/1abc",
   "https://x-tera.io/s/1q",
   "https://dm.nephobox.com/s/1abc",
   "terabox.com/s/1abc",
   "https://bad host/s/1abc",
   "garbage", ""}

NormalizerHosts ==
  {Undef, Str("dm.nephobox.com"), Str("h.io"), Str("terabox.com"),
   Str("H.io"), Str("h.io/x"), Str("h.io:81"), Str("a b"), Str("")}

InitHost ==
  /\ variant = "part000"
  /\ pc = "normalize"
  /\ req \in [url : {Str(u) : u \in NormalizerUrls}, cookie : {Undef},
              host : NormalizerHosts]
  /\ cookieArg = None
  /\ normalizedUrl = None
  /\ extracted = None
  /\ calls = <<>>
  /\ inflight = {}
  /\ primaryResp = None
  /\ fallbackResp = None
  /\ primaryResult = None
  /\ fallbackResult = None
  /\ responses = <<>>
  /\ threw = FALSE
  /\ alive = TRUE

Normalize ==
  /\ pc = "normalize"
  /\ normalizedUrl' = convertToDefaultHost(req.url, req.host)
  /\ pc' = "normalized"
  /\ UNCHANGED <<variant, req, cookieArg, extracted, calls, inflight,
                 primaryResp, fallbackResp, primaryResult, fallbackResult,
                 responses, threw, alive>>

NextHost == Normalize

SpecHost == InitHost /\ [][NextHost]_vars

(***************************************************************************)
(* Properties                                                              *)
(***************************************************************************)
\* the request has been answered
Answered == pc = "done" /\ Len(responses) = 1
Answer == responses[1]
Body == responses[1].body

PrimaryFailed == primaryResult # None /\ ~primaryResult.success
FallbackFailed == fallbackResult # None /\ ~fallbackResult.success
FallbackSucceeded == fallbackResult # None /\ fallbackResult.success

\* the FileEntry a provider entry stands for
ExpectedEntry(f) ==
  CASE f = File1 -> [name |-> Str("a.txt"), size |-> Num(10), isdir |-> Num(0)]
    [] f = File2 -> [name |-> Str("dir"), size |-> Undef, isdir |-> Num(1)]

ExpectedFiles(items) == [i \in 1..Len(items) |-> ExpectedEntry(items[i])]

EndsWith(s, suffix) ==
  Len(s) >= Len(suffix) /\ SubSeq(s, Len(s) - Len(suffix) + 1, Len(s)) = suffix

\* C1: the calls of one request are the primary lookup alone, or the primary
\* lookup followed by the fallback lookup; at most one call is in flight; the
\* fallback is sent only once the primary lookup has come back as a failure,
\* and never after a primary success
C1_SequentialLookups ==
  /\ Cardinality(inflight) <= 1
  /\ Len(calls) <= 2
  /\ Len(calls) >= 1 => calls[1].kind = "primary"
  /\ pc = "primary" => Len(calls) = 1 /\ inflight = {"primary"} /\ primaryResp = None
  /\ Len(calls) = 2 =>
       /\ calls[2].kind = "fallback"
       /\ "primary" \notin inflight
       /\ primaryResp # None
       /\ ~(primaryResp.kind = "json" /\ Get(primaryResp.data, "errno") = Num(0))
       /\ PrimaryFailed
  /\ (primaryResult # None /\ primaryResult.success) => Len(calls) = 1
  /\ "fallback" \in inflight => pc = "fallback" /\ Len(calls) = 2

C1_Witness ==
  /\ variant = "part000"
  /\ pc = "fallback"
  /\ Len(calls) = 2
  /\ primaryResp.kind = "status"

\* the length the claim's mapper gives a list: 0 for an absent one
ListLength(list) == IF list.t \in {"array", "string"} THEN Len(list.v) ELSE 0

\* C2 as stated: after a failed primary and a successful fallback lookup the
\* answer is exists = (list non-empty), total_files = list length and one file
\* per entry of the fallback list
C2_Original ==
  (Answered /\ PrimaryFailed /\ FallbackSucceeded) =>
    LET n == ListLength(Get(fallbackResp.data, "list"))
    IN /\ Answer.status = 200
       /\ "files" \in DOMAIN Body
       /\ Body.exists = (n > 0)
       /\ Body.total_files = Num(n)
       /\ Len(Body.files) = n

\* a list the mapper can map: absent, or an array of objects
Mappable(list) ==
  \/ list = Undef
  \/ list.t = "array" /\ \A i \in 1..Len(list.v) : list.v[i].t = "object"

\* C2: after a failed primary and a successful fallback lookup whose list is
\* absent or an array of objects, the answer is the mapping of the fallback
\* list and of nothing else; for any other list it is the error "Check failed"
C2_FallbackResult ==
  (Answered /\ PrimaryFailed /\ FallbackSucceeded) =>
    LET list == Get(fallbackResp.data, "list")
        items == IF list = Undef THEN <<>> ELSE list.v
    IN /\ Answer.status = 200
       /\ IF Mappable(list)
          THEN Body = [exists |-> Len(items) > 0,
                       total_files |-> Num(Len(items)),
                       files |-> ExpectedFiles(items)]
          ELSE Body = [exists |-> FALSE, error |-> Str("Check failed")]

C2_Witness ==
  /\ Answered /\ PrimaryFailed /\ FallbackSucceeded
  /\ primaryResp.kind = "json"
  /\ Get(primaryResp.data, "list") = Arr(<<File1>>)
  /\ Get(fallbackResp.data, "list") = Arr(<<File2>>)
  /\ Body.exists

\* the provider-domain pattern, reduced to its shortest alternatives
MatchesProviderDomain(u) ==
  \E p \in {"tera", "4funbox", "nephobox", "mirrobox"} : Includes(u, p)

StringParams ==
  /\ req.url.t = "string" /\ req.url.v # ""
  /\ req.cookie.t = "string" /\ req.cookie.v # ""

AllLookupsFailed ==
  /\ PrimaryFailed
  /\ variant = "part000" => FallbackFailed

\* a url from which neither strategy recovers an identifier
Unextractable(u) ==
  /\ ~RegexCapture(u, "surl=", {"&"}, 1).found
  /\ ~RegexCapture(u, "/s/", {"/", "?", "&"}, 1).found

C4_FilesMatchTotal ==
  (Len(responses) >= 1 /\ "exists" \in DOMAIN Body /\ Body.exists) =>
    /\ primaryResult # None
    /\ LET src == IF primaryResult.success THEN primaryResp ELSE fallbackResp
           list == Get(src.data, "list")
       IN /\ list.t = "array"
          /\ Len(list.v) > 0
          /\ Body.total_files = Num(Len(list.v))
          /\ Len(Body.files) = Len(list.v)
          /\ Body.files = ExpectedFiles(list.v)

C4_Witness ==
  /\ Answered
  /\ Body = [exists |-> TRUE, total_files |-> Num(2),
             files |-> <<ExpectedEntry(File2), ExpectedEntry(File1)>>]

\* C5: whichever strategy found the identifier, the identifier sent to the
\* provider is the one found without its leading '1' when it starts with '1'
\* and is longer than one character, and the one found otherwise
C5_StripRegardlessOfStrategy ==
  extracted # None =>
    LET raw == extracted.raw
        expected == IF CharAt(raw, 1) = "1" /\ Len(raw) > 1
                    THEN SubSeq(raw, 2, Len(raw)) ELSE raw
    IN /\ extracted.shortUrl = expected
       /\ EndsWith(calls[1].url, "&shorturl=" \o expected)

InRequest == pc \in {"primary", "fallback", "done", "hung", "exited"}

MissingCookieAnswer ==
  [status |-> 401, body |-> [error |-> Str("Missing 'cookie' parameter")]]

\* C6 as stated: a request with a url parameter, whatever its value, and no
\* cookie parameter is answered 401 and makes no provider call
C6_Original ==
  (InRequest /\ req.url # Undef /\ req.cookie = Undef) =>
    /\ pc = "done"
    /\ responses = <<MissingCookieAnswer>>
    /\ calls = <<>> /\ inflight = {}

\* C6: a request with a non-empty url parameter and no cookie parameter is
\* answered 401 "Missing 'cookie' parameter" and makes no provider call
C6_MissingCookie ==
  (InRequest /\ Truthy(req.url) /\ req.cookie = Undef) =>
    /\ pc = "done"
    /\ responses = <<MissingCookieAnswer>>
    /\ calls = <<>> /\ inflight = {}

C6_Witness ==
  /\ variant = "part000"
  /\ Answered
  /\ req.url = Str("garbage") /\ req.cookie = Undef
  /\ Answer.status = 401

\* the components of a parsed URL other than its hostname
OtherComponents(u) ==
  <<u.protocol, u.port, u.pathname, u.hasQuery, u.search, u.hasHash, u.hash>>

NormalizerTarget == DefaultParam(req.host, Str(DEFAULT_HOST)).v

IsAlias(u) == u.ok /\ u.hostname \in TERABOX_DOMAINS

\* C7 as stated: for an alias URL and any target host the output has the
\* target as hostname and every other component as in the input; any other
\* URL, and any malformed one, comes back unchanged
C7_Original ==
  pc = "normalized" =>
    LET input == ParseURL(req.url.v)
    IN IF IsAlias(input)
       THEN /\ normalizedUrl.t = "string"
            /\ ParseURL(normalizedUrl.v).ok
            /\ ParseURL(normalizedUrl.v).hostname = NormalizerTarget
            /\ OtherComponents(ParseURL(normalizedUrl.v)) = OtherComponents(input)
       ELSE normalizedUrl = req.url

\* a target that is a host name as the URL class keeps it: not empty, in
\* lower case, without port, path, query, fragment or forbidden character
PlainHost(h) ==
  /\ h # ""
  /\ IndexOfAny(h, {"/", "?", "#", ":"} \cup ForbiddenHostChars, 1) > Len(h)
  /\ ToLowerCase(h) = h

\* C7: for an alias URL the output has every component other than the
\* hostname as in the input, and the target as hostname when the target is a
\* plain lower-case host name; any other URL, and any malformed one, comes
\* back unchanged
C7_HostNormalizer ==
  pc = "normalized" =>
    LET input == ParseURL(req.url.v)
    IN IF IsAlias(input)
       THEN /\ normalizedUrl.t = "string"
            /\ ParseURL(normalizedUrl.v).ok
            /\ PlainHost(NormalizerTarget) =>
                 ParseURL(normalizedUrl.v).hostname = NormalizerTarget
            /\ OtherComponents(ParseURL(normalizedUrl.v)) = OtherComponents(input)
       ELSE normalizedUrl = req.url

C7_Witness ==
  /\ pc = "normalized"
  /\ req.url = Str("http://mirrobox.com:8080/s/abc")
  /\ req.host = Str("h.io")
  /\ normalizedUrl = Str("http://h.io:8080/s/abc")

\* C8: the cookie checkUrl receives is the cookie parameter when that starts
\* with 'ndus=' and 'ndus=' followed by it otherwise; the primary lookup
\* carries that cookie, which starts with 'ndus='; normalizing it again
\* changes nothing
C8_CookiePrefixOnce ==
  cookieArg # None =>
    /\ req.cookie.t = "string" /\ req.cookie.v # ""
    /\ IF SubSeq(req.cookie.v, 1, 5) = "ndus="
       THEN cookieArg = req.cookie
       ELSE cookieArg = Str("ndus=" \o req.cookie.v)
    /\ \A i \in 1..Len(calls) :
         calls[i].kind = "primary" =>
           calls[i].cookie = cookieArg /\ SubSeq(calls[i].cookie.v, 1, 5) = "ndus="
    /\ NormalizeCookie(cookieArg) = cookieArg

C8_Witness ==
  /\ Len(calls) >= 1
  /\ req.cookie = Str("abc123")
  /\ calls[1].cookie = Str("ndus=abc123")

\* C9: no exception leaves the route handler, the process stays up, and a
\* request whose handler is over has exactly one response
C9_OneResponseNoEscape ==
  /\ ~threw
  /\ alive
  /\ pc \in {"done", "hung", "exited"} => Len(responses) = 1

\* the host the primary lookup is meant for
TargetHost == JSString(Or(req.host, Str(DEFAULT_HOST)))

\* the cookie goes out with the primary lookup alone, once, to the host of
\* the host parameter or to the default host
CookieOnlyToTarget ==
  \A i \in 1..Len(calls) :
    /\ calls[i].kind = "fallback" => calls[i].cookie = Undef
    /\ calls[i].cookie # Undef =>
         /\ i = 1
         /\ calls[i].kind = "primary"
         /\ calls[i].cookie = cookieArg
         /\ StartsWith(calls[i].url, "https://" \o TargetHost \o "/api/shorturlinfo?")
         /\ calls[i].sent => calls[i].host = TargetHost

\* C10 as stated: the cookie goes out with the primary lookup alone, to the
\* host of the host parameter or the default host, and never to the hostname
\* of the input url
C10_Original ==
  /\ CookieOnlyToTarget
  /\ \A i \in 1..Len(calls) :
       (calls[i].cookie # Undef /\ calls[i].sent) =>
         LET input == ParseURL(JSString(req.url))
         IN input.ok => calls[i].host # input.hostname

\* C10: the cookie goes out with the primary lookup alone, to the host of the
\* host parameter or the default host; that is the hostname of the input url
\* only when the host parameter, or the default host when there is none, is
\* that very host
C10_CookieToPrimaryOnly ==
  /\ CookieOnlyToTarget
  /\ \A i \in 1..Len(calls) :
       (calls[i].cookie # Undef /\ calls[i].sent) =>
         LET input == ParseURL(JSString(req.url))
         IN (input.ok /\ calls[i].host = input.hostname) =>
              TargetHost = input.hostname

C10_Witness ==
  /\ Len(calls) = 2
  /\ req.host = Str("h.io")
  /\ req.url = Str("https://terabox.com/s/1abc")
  /\ calls[1].cookie = Str("ndus=abc123")
  /\ calls[2].cookie = Undef

====
